---- MODULE Spec2Model ----
(***************************************************************************)
(* A model of MutualFundCalculator (src/calculations.py): the three        *)
(* year-by-year projections one_time_investment, sip_calculator and        *)
(* swp_calculator, and the helper calculate_cagr.                          *)
(*                                                                         *)
(* Numbers.  The program computes in Python floats.  The model computes in *)
(* fixed point: a money amount is an integer number of 1/Scale rupees, and *)
(* every product or quotient is the exact result rounded down to that      *)
(* grid.  Percentages (rate, inflation_rate, increase_percentage) are      *)
(* whole percents.  int(x), which the program applies to every field of a  *)
(* record, is modelled as truncation to whole rupees.  The two rounded     *)
(* fields 'Interest Percent' and 'Gains Percent' are left out of the       *)
(* records.                                                                *)
(*                                                                         *)
(* One call is one behaviour: Init chooses the function and its arguments, *)
(* the actions are the steps of the function's loops.                      *)
(***************************************************************************)
EXTENDS Integers, Sequences, FiniteSets, TLC

VARIABLES fn,       \* the method that is called
          args,     \* its arguments (amounts in 1/Scale rupees)
          pc,       \* "call", "loop" (head of the year loop), "month", "done"
          year,     \* the loop variable `year`
          month,    \* the number of iterations of `for month in range(12)` done
          loc,      \* the loop-carried local variables of the method
          results,  \* the list `results` of appended records; for
                    \* calculate_cagr, the number it returns
          exact     \* per appended record, the un-truncated locals it was built from

vars == <<fn, args, pc, year, month, loc, results, exact>>

----------------------------------------------------------------------------
(* Bounds and program constants *)

Scale == 100
PowScale == 10000
MaxYears == 10

BaseYear == 2025
MonthsPerYear == 12

Principals == {1000, 100000}
MonthlyInvestments == {500, 10000}
InitialAmounts == {12, 100000}
WithdrawalAmounts == {1, 3000}
Rates == {0, 12}
InflationRates == {0, 6}
IncreaseAmounts == {0, 5000}
IncreasePercentages == {0, 10}
Frequencies == {"Yearly", "Every 3 years", "Every 5 years"}

----------------------------------------------------------------------------
(* Arithmetic *)

\* floor(a * b / c), computed without forming a * b
MulDiv(a, b, c) == (a \div c) * b + ((a % c) * b) \div c

Min(a, b) == IF a <= b THEN a ELSE b

\* int(x): truncation toward zero, to whole rupees
int(x) == IF x >= 0 THEN x \div Scale ELSE -((-x) \div Scale)

\* The value None of an optional record field, and a present value
None == << >>
Some(x) == <<x>>

\* x * (1 + rate/100)
GrowYearly(x, rate) == MulDiv(x, 100 + rate, 100)

\* monthly_rate = rate / (12 * 100);  x * (1 + monthly_rate)
GrowMonthly(x, rate) == MulDiv(x, 12 * 100 + rate, 12 * 100)

\* x * (1 + increase_percentage/100)
Increase(x, pct) == MulDiv(x, 100 + pct, 100)

\* (1 + inflation_rate/100) ** year, in units of 1/PowScale
RECURSIVE InflationFactor(_, _)
InflationFactor(inflation_rate, y) ==
    IF y = 0 THEN PowScale
    ELSE MulDiv(InflationFactor(inflation_rate, y - 1), 100 + inflation_rate, 100)

\* RealValue with the division turned into a multiplication
RealValue_Multiplied(x, inflation_rate, y) ==
    IF inflation_rate > 0
    THEN MulDiv(x, InflationFactor(inflation_rate, y), PowScale)
    ELSE x

\* x / ((1 + inflation_rate/100) ** year) if inflation_rate > 0 else x
RealValue(x, inflation_rate, y) ==
    IF inflation_rate > 0
    THEN MulDiv(x, PowScale, InflationFactor(inflation_rate, y))
    ELSE x

\* int(real_value) if inflation_rate > 0 else None
RealField(real, inflation_rate) ==
    IF inflation_rate > 0 THEN Some(int(real)) ELSE None

\* str.lower() on the labels the model uses
Lower(s) ==
    CASE s = "Yearly" -> "yearly"
      [] s = "Every 3 years" -> "every 3 years"
      [] s = "Every 5 years" -> "every 5 years"
      [] OTHER -> s

\* freq_map.get(increase_frequency, increase_frequency.lower())
FreqMap(f) ==
    CASE f \in {"Yearly", "yearly"} -> "yearly"
      [] f \in {"Every 3 years", "every_3_years"} -> "every_3_years"
      [] f \in {"Every 5 years", "every_5_years"} -> "every_5_years"
      [] OTHER -> Lower(f)

----------------------------------------------------------------------------
(* one_time_investment *)

OneTimeArgs ==
    [principal : {p * Scale : p \in Principals},
     rate : Rates,
     years : 1..MaxYears,
     inflation_rate : InflationRates,
     enable_increase : BOOLEAN,
     increase_frequency : Frequencies,
     increase_amount : {a * Scale : a \in IncreaseAmounts}]

\* current_amount = principal; total_principal = principal
OneTimeInit(a) == [current_amount |-> a.principal, total_principal |-> a.principal]

\* AdditionalInvestment with the schedule of sip_calculator ((year - 1) % n)
AdditionalInvestment_Shifted(a, y) ==
    LET freq == FreqMap(a.increase_frequency) IN
    IF a.enable_increase /\ a.increase_amount > 0
    THEN IF freq = "yearly" THEN a.increase_amount
         ELSE IF freq = "every_3_years" /\ (y - 1) % 3 = 0 THEN a.increase_amount
         ELSE IF freq = "every_5_years" /\ (y - 1) % 5 = 0 THEN a.increase_amount
         ELSE 0
    ELSE 0

\* the additional investment of a year
AdditionalInvestment(a, y) ==
    LET freq == FreqMap(a.increase_frequency) IN
    IF a.enable_increase /\ a.increase_amount > 0
    THEN IF freq = "yearly" THEN a.increase_amount
         ELSE IF freq = "every_3_years" /\ y % 3 = 0 THEN a.increase_amount
         ELSE IF freq = "every_5_years" /\ y % 5 = 0 THEN a.increase_amount
         ELSE 0
    ELSE 0

\* OneTimeBody without `total_principal += additional_investment`
OneTimeBody_PrincipalNotUpdated(a, y, l) ==
    LET additional_investment == AdditionalInvestment(a, y)
        total_principal == l.total_principal
        current_amount ==
            GrowYearly(l.current_amount + additional_investment, a.rate)
    IN  [additional_investment |-> additional_investment,
         total_principal |-> total_principal,
         current_amount |-> current_amount,
         real_value |-> RealValue(current_amount, a.inflation_rate, y),
         interest_earned |-> current_amount - total_principal]

\* the un-truncated locals at the end of the body of year y
OneTimeBody(a, y, l) ==
    LET additional_investment == AdditionalInvestment(a, y)
        total_principal == l.total_principal + additional_investment
        current_amount ==
            GrowYearly(l.current_amount + additional_investment, a.rate)
    IN  [additional_investment |-> additional_investment,
         total_principal |-> total_principal,
         current_amount |-> current_amount,
         real_value |-> RealValue(current_amount, a.inflation_rate, y),
         interest_earned |-> current_amount - total_principal]

\* the record appended for year y
OneTimeRecord(a, y, e) ==
    [Period |-> y,
     Year |-> BaseYear + y,
     TotalPrincipal |-> int(e.total_principal),
     AdditionalInvestment |-> int(e.additional_investment),
     FinalAmount |-> int(e.current_amount),
     InterestEarned |-> int(e.interest_earned),
     RealValue |-> RealField(e.real_value, a.inflation_rate)]

OneTimeCall ==
    /\ pc = "call" /\ fn = "one_time_investment"
    /\ loc' = OneTimeInit(args)
    /\ results' = << >>
    /\ exact' = << >>
    /\ year' = 1
    /\ pc' = "loop"
    /\ UNCHANGED <<fn, args, month>>

OneTimeYear ==
    /\ pc = "loop" /\ fn = "one_time_investment"
    /\ year <= args.years
    /\ LET e == OneTimeBody(args, year, loc) IN
         /\ loc' = [current_amount |-> e.current_amount,
                    total_principal |-> e.total_principal]
         /\ results' = Append(results, OneTimeRecord(args, year, e))
         /\ exact' = Append(exact, e)
    /\ year' = year + 1
    /\ UNCHANGED <<fn, args, pc, month>>

----------------------------------------------------------------------------
(* sip_calculator *)

SipArgs ==
    [monthly_investment : {m * Scale : m \in MonthlyInvestments},
     rate : Rates,
     years : 1..MaxYears,
     inflation_rate : InflationRates,
     enable_increase : BOOLEAN,
     increase_frequency : Frequencies,
     increase_percentage : IncreasePercentages]

SipInit(a) ==
    [total_invested |-> 0,
     current_value |-> 0,
     current_monthly_sip |-> a.monthly_investment,
     year_invested |-> 0]

\* SipIncrease without the test `if year > 1` of the yearly branch
SipIncrease_NoYearTest(a, y, current_monthly_sip) ==
    LET freq == FreqMap(a.increase_frequency) IN
    IF a.enable_increase /\ a.increase_percentage > 0
    THEN IF freq = "yearly"
         THEN Increase(current_monthly_sip, a.increase_percentage)
         ELSE IF freq = "every_3_years" /\ y > 1 /\ (y - 1) % 3 = 0
              THEN Increase(current_monthly_sip, a.increase_percentage)
         ELSE IF freq = "every_5_years" /\ y > 1 /\ (y - 1) % 5 = 0
              THEN Increase(current_monthly_sip, a.increase_percentage)
         ELSE current_monthly_sip
    ELSE current_monthly_sip

\* current_monthly_sip after the step-up test at the start of year y
SipIncrease(a, y, current_monthly_sip) ==
    LET freq == FreqMap(a.increase_frequency) IN
    IF a.enable_increase /\ a.increase_percentage > 0
    THEN IF freq = "yearly"
         THEN IF y > 1 THEN Increase(current_monthly_sip, a.increase_percentage)
              ELSE current_monthly_sip
         ELSE IF freq = "every_3_years" /\ y > 1 /\ (y - 1) % 3 = 0
              THEN Increase(current_monthly_sip, a.increase_percentage)
         ELSE IF freq = "every_5_years" /\ y > 1 /\ (y - 1) % 5 = 0
              THEN Increase(current_monthly_sip, a.increase_percentage)
         ELSE current_monthly_sip
    ELSE current_monthly_sip

\* the start of the body of year y: the step-up test and year_invested = 0
SipYearStart(a, y, l) ==
    [l EXCEPT !.current_monthly_sip = SipIncrease(a, y, l.current_monthly_sip),
              !.year_invested = 0]

\* SipMonthStep with the month's growth applied before the deposit is added
SipMonthStep_GrowThenDeposit(a, l) ==
    [l EXCEPT !.total_invested = l.total_invested + l.current_monthly_sip,
              !.year_invested = l.year_invested + l.current_monthly_sip,
              !.current_value =
                  GrowMonthly(l.current_value, a.rate) + l.current_monthly_sip]

\* SipMonthStep with the deposit subtracted from the value
SipMonthStep_Subtracts(a, l) ==
    [l EXCEPT !.total_invested = l.total_invested + l.current_monthly_sip,
              !.year_invested = l.year_invested + l.current_monthly_sip,
              !.current_value =
                  GrowMonthly(l.current_value - l.current_monthly_sip, a.rate)]

\* one iteration of `for month in range(12)`
SipMonthStep(a, l) ==
    [l EXCEPT !.total_invested = l.total_invested + l.current_monthly_sip,
              !.year_invested = l.year_invested + l.current_monthly_sip,
              !.current_value =
                  GrowMonthly(l.current_value + l.current_monthly_sip, a.rate)]

\* the un-truncated locals after the month loop of year y
SipYearEnd(a, y, l) ==
    [current_monthly_sip |-> l.current_monthly_sip,
     year_invested |-> l.year_invested,
     total_invested |-> l.total_invested,
     current_value |-> l.current_value,
     real_value |-> RealValue(l.current_value, a.inflation_rate, y),
     gains |-> l.current_value - l.total_invested]

\* SipRecord with a 0-based Period
SipRecord_ZeroBased(a, y, e) ==
    [Period |-> y - 1,
     Year |-> BaseYear + y,
     MonthlySIP |-> int(e.current_monthly_sip),
     AnnualInvestment |-> int(e.year_invested),
     TotalInvested |-> int(e.total_invested),
     FinalAmount |-> int(e.current_value),
     Gains |-> int(e.gains),
     RealValue |-> RealField(e.real_value, a.inflation_rate)]

\* the record appended for year y
SipRecord(a, y, e) ==
    [Period |-> y,
     Year |-> BaseYear + y,
     MonthlySIP |-> int(e.current_monthly_sip),
     AnnualInvestment |-> int(e.year_invested),
     TotalInvested |-> int(e.total_invested),
     FinalAmount |-> int(e.current_value),
     Gains |-> int(e.gains),
     RealValue |-> RealField(e.real_value, a.inflation_rate)]

SipCall ==
    /\ pc = "call" /\ fn = "sip_calculator"
    /\ loc' = SipInit(args)
    /\ results' = << >>
    /\ exact' = << >>
    /\ year' = 1
    /\ pc' = "loop"
    /\ UNCHANGED <<fn, args, month>>

SipStepUp ==
    /\ pc = "loop" /\ fn = "sip_calculator"
    /\ year <= args.years
    /\ loc' = SipYearStart(args, year, loc)
    /\ month' = 0
    /\ pc' = "month"
    /\ UNCHANGED <<fn, args, year, results, exact>>

SipMonth ==
    /\ pc = "month" /\ fn = "sip_calculator"
    /\ month < MonthsPerYear
    /\ loc' = SipMonthStep(args, loc)
    /\ month' = month + 1
    /\ UNCHANGED <<fn, args, pc, year, results, exact>>

SipEmit ==
    /\ pc = "month" /\ fn = "sip_calculator"
    /\ month = MonthsPerYear
    /\ LET e == SipYearEnd(args, year, loc) IN
         /\ results' = Append(results, SipRecord(args, year, e))
         /\ exact' = Append(exact, e)
    /\ year' = year + 1
    /\ pc' = "loop"
    /\ UNCHANGED <<fn, args, month, loc>>

----------------------------------------------------------------------------
(* swp_calculator *)

SwpArgs ==
    [initial_amount : {m * Scale : m \in InitialAmounts},
     withdrawal_amount : {m * Scale : m \in WithdrawalAmounts},
     rate : Rates,
     years : 1..MaxYears,
     inflation_rate : InflationRates,
     enable_increase : BOOLEAN,
     increase_frequency : Frequencies,
     increase_percentage : IncreasePercentages]

\* year_growth and start_balance are history fields: the growth credited to
\* the balance in the current year, and the balance the year started with.
SwpInit(a) ==
    [current_balance |-> a.initial_amount,
     total_withdrawn |-> 0,
     current_monthly_withdrawal |-> a.withdrawal_amount,
     year_withdrawn |-> 0,
     year_growth |-> 0,
     start_balance |-> a.initial_amount]

\* SwpIncrease without the test of enable_increase
SwpIncrease_IgnoresEnable(a, y, current_monthly_withdrawal) ==
    LET freq == FreqMap(a.increase_frequency) IN
    IF a.increase_percentage > 0
    THEN IF freq = "yearly"
         THEN IF y > 1
              THEN Increase(current_monthly_withdrawal, a.increase_percentage)
              ELSE current_monthly_withdrawal
         ELSE IF freq = "every_3_years" /\ y > 1 /\ (y - 1) % 3 = 0
              THEN Increase(current_monthly_withdrawal, a.increase_percentage)
         ELSE IF freq = "every_5_years" /\ y > 1 /\ (y - 1) % 5 = 0
              THEN Increase(current_monthly_withdrawal, a.increase_percentage)
         ELSE current_monthly_withdrawal
    ELSE current_monthly_withdrawal

\* current_monthly_withdrawal after the step-up test at the start of year y
SwpIncrease(a, y, current_monthly_withdrawal) ==
    LET freq == FreqMap(a.increase_frequency) IN
    IF a.enable_increase /\ a.increase_percentage > 0
    THEN IF freq = "yearly"
         THEN IF y > 1
              THEN Increase(current_monthly_withdrawal, a.increase_percentage)
              ELSE current_monthly_withdrawal
         ELSE IF freq = "every_3_years" /\ y > 1 /\ (y - 1) % 3 = 0
              THEN Increase(current_monthly_withdrawal, a.increase_percentage)
         ELSE IF freq = "every_5_years" /\ y > 1 /\ (y - 1) % 5 = 0
              THEN Increase(current_monthly_withdrawal, a.increase_percentage)
         ELSE current_monthly_withdrawal
    ELSE current_monthly_withdrawal

SwpYearStart(a, y, l) ==
    [l EXCEPT !.current_monthly_withdrawal =
                  SwpIncrease(a, y, l.current_monthly_withdrawal),
              !.year_withdrawn = 0,
              !.year_growth = 0,
              !.start_balance = l.current_balance]

\* SwpMonthStep without the min: the whole monthly amount is withdrawn
SwpMonthStep_NoMin(a, l) ==
    IF l.current_balance > 0
    THEN LET grown == GrowMonthly(l.current_balance, a.rate)
             withdrawal == l.current_monthly_withdrawal
         IN  [l EXCEPT !.current_balance = grown - withdrawal,
                       !.total_withdrawn = l.total_withdrawn + withdrawal,
                       !.year_withdrawn = l.year_withdrawn + withdrawal,
                       !.year_growth = l.year_growth + (grown - l.current_balance)]
    ELSE l

\* SwpMonthStep without `current_balance -= withdrawal`
SwpMonthStep_BalanceNotReduced(a, l) ==
    IF l.current_balance > 0
    THEN LET grown == GrowMonthly(l.current_balance, a.rate)
             withdrawal == Min(l.current_monthly_withdrawal, grown)
         IN  [l EXCEPT !.current_balance = grown,
                       !.total_withdrawn = l.total_withdrawn + withdrawal,
                       !.year_withdrawn = l.year_withdrawn + withdrawal,
                       !.year_growth = l.year_growth + (grown - l.current_balance)]
    ELSE l

\* one iteration of `for month in range(12)`
SwpMonthStep(a, l) ==
    IF l.current_balance > 0
    THEN LET grown == GrowMonthly(l.current_balance, a.rate)
             withdrawal == Min(l.current_monthly_withdrawal, grown)
         IN  [l EXCEPT !.current_balance = grown - withdrawal,
                       !.total_withdrawn = l.total_withdrawn + withdrawal,
                       !.year_withdrawn = l.year_withdrawn + withdrawal,
                       !.year_growth = l.year_growth + (grown - l.current_balance)]
    ELSE l

\* the un-truncated locals after the month loop of year y
SwpYearEnd(a, y, l) ==
    [current_monthly_withdrawal |-> l.current_monthly_withdrawal,
     year_withdrawn |-> l.year_withdrawn,
     current_balance |-> l.current_balance,
     total_withdrawn |-> l.total_withdrawn,
     real_balance |-> RealValue(l.current_balance, a.inflation_rate, y),
     real_withdrawn |-> RealValue(l.total_withdrawn, a.inflation_rate, y),
     year_growth |-> l.year_growth,
     start_balance |-> l.start_balance]

\* the record appended for year y
SwpRecord(a, y, e) ==
    [Period |-> y,
     Year |-> BaseYear + y,
     MonthlyWithdrawal |-> int(e.current_monthly_withdrawal),
     AnnualWithdrawn |-> int(e.year_withdrawn),
     RemainingBalance |-> int(e.current_balance),
     TotalWithdrawn |-> int(e.total_withdrawn),
     RealBalance |-> RealField(e.real_balance, a.inflation_rate)]

\* SwpBreak with `<` for `<=`
SwpBreak_Strict(l) == l.current_balance < 0

\* if current_balance <= 0: break
SwpBreak(l) == l.current_balance <= 0

SwpCall ==
    /\ pc = "call" /\ fn = "swp_calculator"
    /\ loc' = SwpInit(args)
    /\ results' = << >>
    /\ exact' = << >>
    /\ year' = 1
    /\ pc' = "loop"
    /\ UNCHANGED <<fn, args, month>>

SwpStepUp ==
    /\ pc = "loop" /\ fn = "swp_calculator"
    /\ year <= args.years
    /\ loc' = SwpYearStart(args, year, loc)
    /\ month' = 0
    /\ pc' = "month"
    /\ UNCHANGED <<fn, args, year, results, exact>>

SwpMonth ==
    /\ pc = "month" /\ fn = "swp_calculator"
    /\ month < MonthsPerYear
    /\ loc' = SwpMonthStep(args, loc)
    /\ month' = month + 1
    /\ UNCHANGED <<fn, args, pc, year, results, exact>>

SwpEmit ==
    /\ pc = "month" /\ fn = "swp_calculator"
    /\ month = MonthsPerYear
    /\ LET e == SwpYearEnd(args, year, loc) IN
         /\ results' = Append(results, SwpRecord(args, year, e))
         /\ exact' = Append(exact, e)
    /\ IF SwpBreak(loc)
       THEN pc' = "done" /\ year' = year
       ELSE pc' = "loop" /\ year' = year + 1
    /\ UNCHANGED <<fn, args, month, loc>>

----------------------------------------------------------------------------
(* return pd.DataFrame(results), when the year loop is exhausted *)

Return ==
    /\ pc = "loop"
    /\ year > args.years
    /\ pc' = "done"
    /\ UNCHANGED <<fn, args, year, month, loc, results, exact>>

----------------------------------------------------------------------------
(* The specification *)

Init ==
    /\ fn \in {"one_time_investment", "sip_calculator", "swp_calculator"}
    /\ args \in CASE fn = "one_time_investment" -> OneTimeArgs
                  [] fn = "sip_calculator" -> SipArgs
                  [] fn = "swp_calculator" -> SwpArgs
    /\ pc = "call"
    /\ year = 0
    /\ month = 0
    /\ loc = << >>
    /\ results = << >>
    /\ exact = << >>

Next ==
    \/ OneTimeCall
    \/ OneTimeYear
    \/ SipCall
    \/ SipStepUp
    \/ SipMonth
    \/ SipEmit
    \/ SwpCall
    \/ SwpStepUp
    \/ SwpMonth
    \/ SwpEmit
    \/ Return

Spec == Init /\ [][Next]_vars

----------------------------------------------------------------------------
(* Shorthands for the properties *)

OneTime == fn = "one_time_investment"
Sip == fn = "sip_calculator"
Swp == fn = "swp_calculator"
Done == pc = "done"
Last(s) == s[Len(s)]

----------------------------------------------------------------------------
(* C1: swp_calculator stops after the first record with a balance <= 0 *)

\* C1, as claimed: in swp_calculator every record except the last has a
\* Remaining Balance > 0 (no record follows a record whose balance is <= 0),
\* and a result shorter than `years` ends with Remaining Balance <= 0.
C1_Original ==
    Swp =>
        /\ \A i \in 1..(Len(results) - 1) : results[i].RemainingBalance > 0
        /\ (Done /\ Len(results) < args.years) =>
               Last(results).RemainingBalance <= 0

\* C1, amended: the stop rule tests the un-truncated balance.  Once a record
\* is appended whose un-truncated year-end balance is <= 0 the call is over
\* and no record follows; every record except the last was built from a
\* balance > 0, and the Remaining Balance it shows, int(balance), is >= 0
\* (0 when the balance is below one rupee); a result shorter than `years`
\* ends with Remaining Balance <= 0.
C1_StopsAtDepletion ==
    Swp =>
        /\ \A i \in 1..(Len(results) - 1) :
               /\ exact[i].current_balance > 0
               /\ results[i].RemainingBalance >= 0
        /\ (Len(results) > 0 /\ Last(exact).current_balance <= 0) => Done
        /\ Done => Len(results) <= args.years
        /\ (Done /\ Len(results) < args.years) =>
               /\ Last(exact).current_balance <= 0
               /\ Last(results).RemainingBalance <= 0

\* a depleted run that stopped early, after a record that shows balance 0
\* and was followed by another record
C1_Witness ==
    /\ Swp /\ Done
    /\ Len(results) >= 2
    /\ Len(results) < args.years
    /\ results[1].RemainingBalance = 0
    /\ Last(exact).current_balance <= 0

----------------------------------------------------------------------------
(* C2: the number of records and their Period values *)

Periods(rs) == \A i \in 1..Len(rs) : rs[i].Period = i

\* C2: with step-up disabled and inflation_rate = 0, one_time_investment and
\* sip_calculator return exactly `years` records with Period 1, 2, ..., years
\* in order; swp_calculator returns exactly `years` records unless the
\* balance depletes.
C2_RecordCount ==
    (~args.enable_increase /\ args.inflation_rate = 0) =>
        /\ Periods(results)
        /\ (Done /\ (OneTime \/ Sip)) => Len(results) = args.years
        /\ (Done /\ Swp) =>
               \/ Len(results) = args.years
               \/ Last(exact).current_balance <= 0

C2_Witness ==
    /\ Done /\ Sip
    /\ ~args.enable_increase /\ args.inflation_rate = 0
    /\ args.years >= 3
    /\ Len(results) = args.years

----------------------------------------------------------------------------
(* C3: the years of the step-up under "Every 3 years", over 10 years *)

Every3Over10 ==
    /\ Done
    /\ args.years = 10
    /\ args.enable_increase
    /\ FreqMap(args.increase_frequency) = "every_3_years"
    /\ Len(results) = 10

\* C3: with step-up enabled, a positive magnitude and frequency "Every 3
\* years" over a 10-year run, the periods of one_time_investment with a
\* non-zero additional investment are exactly {3, 6, 9}, and the periods at
\* which the monthly contribution of sip_calculator differs from the previous
\* year's are exactly {4, 7, 10}.
C3_StepUpYears ==
    /\ (OneTime /\ Every3Over10 /\ args.increase_amount > 0) =>
           /\ {p \in 1..10 : results[p].AdditionalInvestment # 0} = {3, 6, 9}
           /\ {p \in 1..10 : exact[p].additional_investment # 0} = {3, 6, 9}
    /\ (Sip /\ Every3Over10 /\ args.increase_percentage > 0) =>
           /\ {p \in 2..10 : results[p].MonthlySIP # results[p - 1].MonthlySIP}
                  = {4, 7, 10}
           /\ {p \in 2..10 : exact[p].current_monthly_sip
                                 # exact[p - 1].current_monthly_sip} = {4, 7, 10}
           /\ exact[1].current_monthly_sip = args.monthly_investment

C3_Witness ==
    /\ Sip /\ Every3Over10 /\ args.increase_percentage > 0
    /\ results[4].MonthlySIP > results[3].MonthlySIP
    /\ results[3].MonthlySIP = results[1].MonthlySIP

----------------------------------------------------------------------------
(* C4: no step-up in year 1 of sip_calculator and swp_calculator *)

\* the monthly amount of the locals l, and the input amount
Monthly(l) ==
    IF Sip THEN l.current_monthly_sip ELSE l.current_monthly_withdrawal
InputMonthly ==
    IF Sip THEN args.monthly_investment ELSE args.withdrawal_amount

\* C4: in sip_calculator and swp_calculator, for every frequency and every
\* percentage, the monthly amount used throughout year 1 is the input amount;
\* with "Yearly" the amount is increased at year 2 and at every later year.
C4_NoStepUpInYearOne ==
    (Sip \/ Swp) =>
        /\ (pc = "month" /\ year = 1) => Monthly(loc) = InputMonthly
        /\ Len(exact) >= 1 =>
               /\ Monthly(exact[1]) = InputMonthly
               /\ results[1][IF Sip THEN "MonthlySIP" ELSE "MonthlyWithdrawal"]
                      = int(InputMonthly)
        /\ ( /\ args.enable_increase
             /\ args.increase_percentage > 0
             /\ FreqMap(args.increase_frequency) = "yearly" ) =>
               \A y \in 2..Len(exact) :
                   /\ Monthly(exact[y]) =
                          Increase(Monthly(exact[y - 1]), args.increase_percentage)
                   /\ Monthly(exact[y]) > Monthly(exact[y - 1])

C4_Witness ==
    /\ Swp
    /\ args.enable_increase
    /\ args.increase_percentage > 0
    /\ FreqMap(args.increase_frequency) = "yearly"
    /\ Len(exact) >= 3
    /\ Monthly(exact[1]) = InputMonthly
    /\ Monthly(exact[2]) > InputMonthly

----------------------------------------------------------------------------
(* C5: a disabled step-up has no effect *)

\* The whole call as a function of its arguments: the records it returns.
RECURSIVE OneTimeFrom(_, _, _, _)
OneTimeFrom(a, y, l, rs) ==
    IF y > a.years THEN rs
    ELSE LET e == OneTimeBody(a, y, l) IN
         OneTimeFrom(a, y + 1,
                     [current_amount |-> e.current_amount,
                      total_principal |-> e.total_principal],
                     Append(rs, OneTimeRecord(a, y, e)))

RECURSIVE SipMonths(_, _, _)
SipMonths(a, l, n) == IF n = 0 THEN l ELSE SipMonths(a, SipMonthStep(a, l), n - 1)

RECURSIVE SipFrom(_, _, _, _)
SipFrom(a, y, l, rs) ==
    IF y > a.years THEN rs
    ELSE LET l2 == SipMonths(a, SipYearStart(a, y, l), MonthsPerYear) IN
         SipFrom(a, y + 1, l2, Append(rs, SipRecord(a, y, SipYearEnd(a, y, l2))))

RECURSIVE SwpMonths(_, _, _)
SwpMonths(a, l, n) == IF n = 0 THEN l ELSE SwpMonths(a, SwpMonthStep(a, l), n - 1)

RECURSIVE SwpFrom(_, _, _, _)
SwpFrom(a, y, l, rs) ==
    IF y > a.years THEN rs
    ELSE LET l2 == SwpMonths(a, SwpYearStart(a, y, l), MonthsPerYear)
             rs2 == Append(rs, SwpRecord(a, y, SwpYearEnd(a, y, l2)))
         IN  IF SwpBreak(l2) THEN rs2 ELSE SwpFrom(a, y + 1, l2, rs2)

Run(f, a) ==
    CASE f = "one_time_investment" -> OneTimeFrom(a, 1, OneTimeInit(a), << >>)
      [] f = "sip_calculator" -> SipFrom(a, 1, SipInit(a), << >>)
      [] f = "swp_calculator" -> SwpFrom(a, 1, SwpInit(a), << >>)

\* the arguments a with another step-up magnitude and frequency
WithStepUp(a, magnitude, frequency) ==
    IF OneTime
    THEN [a EXCEPT !.increase_amount = magnitude * Scale,
                   !.increase_frequency = frequency]
    ELSE [a EXCEPT !.increase_percentage = magnitude,
                   !.increase_frequency = frequency]

Magnitudes == IF OneTime THEN IncreaseAmounts ELSE IncreasePercentages

\* C5: for each of the three methods, when enable_increase is false the
\* returned records are the same for every step-up magnitude and frequency:
\* the call with any other magnitude and frequency returns the records of
\* this call.
C5_DisabledStepUpHasNoEffect ==
    (Done /\ ~args.enable_increase) =>
        \A m \in Magnitudes, f \in Frequencies :
            Run(fn, WithStepUp(args, m, f)) = results

\* a finished call with step-up disabled and a magnitude that would have
\* changed the result had it been enabled
C5_Witness ==
    /\ Done /\ Swp /\ ~args.enable_increase
    /\ args.increase_percentage > 0
    /\ args.years >= 3
    /\ Len(results) >= 3
    /\ Run(fn, [args EXCEPT !.enable_increase = TRUE]) # results

----------------------------------------------------------------------------
(* C6: the real (inflation-adjusted) value against the nominal value *)

\* the nominal value of a record, and of the locals it was built from
Nominal(r) == IF Swp THEN r.RemainingBalance ELSE r.FinalAmount
NominalExact(e) ==
    CASE OneTime -> e.current_amount
      [] Sip -> e.current_value
      [] Swp -> e.current_balance

\* the real value of a record, and of the locals it was built from
Real(r) == IF Swp THEN r.RealBalance ELSE r.RealValue
RealExact(e) == IF Swp THEN e.real_balance ELSE e.real_value

----------------------------------------------------------------------------
(* C7: one_time_investment with rate = 0 *)

\* C7: in one_time_investment with rate = 0, in every year and for every
\* step-up configuration, Final Amount equals Total Principal and Interest
\* Earned is 0.
C7_ZeroRateNoGrowth ==
    (OneTime /\ args.rate = 0) =>
        \A i \in 1..Len(results) :
            /\ results[i].FinalAmount = results[i].TotalPrincipal
            /\ results[i].InterestEarned = 0
            /\ exact[i].current_amount = exact[i].total_principal

C7_Witness ==
    /\ OneTime /\ Done
    /\ args.rate = 0
    /\ Len(results) >= 3
    /\ results[3].AdditionalInvestment > 0
    /\ results[3].TotalPrincipal > results[2].TotalPrincipal
    /\ results[3].FinalAmount = results[3].TotalPrincipal

----------------------------------------------------------------------------
(* C8: the Final Amount of sip_calculator never decreases *)

\* C8: in sip_calculator (rate >= 0, monthly amount > 0) the Final Amount of
\* each record is greater than or equal to the Final Amount of the previous
\* record, for every step-up configuration.
C8_SipMonotone ==
    Sip =>
        \A i \in 2..Len(results) :
            /\ results[i].FinalAmount >= results[i - 1].FinalAmount
            /\ exact[i].current_value >= exact[i - 1].current_value

C8_Witness ==
    /\ Sip /\ Done
    /\ args.enable_increase /\ args.increase_percentage > 0
    /\ Len(results) >= 3
    /\ results[3].FinalAmount > results[2].FinalAmount

----------------------------------------------------------------------------
(* C9: swp_calculator when the withdrawals exceed the growth *)

\* in every year so far more was withdrawn than the balance grew
WithdrawnExceedsGrowth ==
    \A i \in 1..Len(exact) : exact[i].year_withdrawn > exact[i].year_growth

\* C9, as claimed: if in every simulated year the amount withdrawn exceeds
\* the growth, Remaining Balance strictly decreases from each record to the
\* next and the result ends with Remaining Balance <= 0 in fewer than `years`
\* records.
C9_Original ==
    (Swp /\ Done /\ WithdrawnExceedsGrowth) =>
        /\ \A i \in 2..Len(results) :
               results[i].RemainingBalance < results[i - 1].RemainingBalance
        /\ Last(results).RemainingBalance <= 0
        /\ Len(results) < args.years

\* C9, amended: in a year in which more is withdrawn than the balance grows,
\* the year-end balance is strictly less than the balance the year started
\* with, and the Remaining Balance of its record, truncated to whole rupees,
\* is not greater than the previous record's.  The run need not deplete: it
\* has fewer than `years` records only if its last Remaining Balance is <= 0,
\* and otherwise returns all `years` records.
C9_BalanceDecreases ==
    Swp =>
        /\ \A i \in 1..Len(exact) :
               exact[i].year_withdrawn > exact[i].year_growth =>
                   /\ exact[i].current_balance < exact[i].start_balance
                   /\ exact[i].start_balance =
                          (IF i = 1 THEN args.initial_amount
                           ELSE exact[i - 1].current_balance)
                   /\ i > 1 => results[i].RemainingBalance
                                   <= results[i - 1].RemainingBalance
        /\ Done =>
               \/ Len(results) = args.years
               \/ Len(results) < args.years /\ Last(results).RemainingBalance <= 0

\* withdrawals exceed growth in every year, yet the run returns all `years`
\* records with money left
C9_Witness ==
    /\ Swp /\ Done
    /\ WithdrawnExceedsGrowth
    /\ args.rate > 0
    /\ Len(results) = args.years
    /\ Len(results) >= 3
    /\ Last(results).RemainingBalance > 0
    /\ results[3].RemainingBalance < results[2].RemainingBalance

----------------------------------------------------------------------------
(* C10: sip_calculator(10000, 12, 1) *)

Abs(x) == IF x >= 0 THEN x ELSE -x

C10_Case ==
    /\ Sip /\ Done
    /\ args.monthly_investment = 10000 * Scale
    /\ args.rate = 12
    /\ args.years = 1
    /\ args.inflation_rate = 0
    /\ ~args.enable_increase

\* C10, as claimed: sip_calculator(10000, 12, 1, 0) with step-up disabled
\* returns a single record with Total Invested = 120000 and Final Amount
\* approximately 127288 (here: within 100 rupees of it).
C10_Original ==
    C10_Case =>
        /\ Len(results) = 1
        /\ results[1].TotalInvested = 120000
        /\ Abs(results[1].FinalAmount - 127288) <= 100

\* C10, amended: the call returns a single record with Total Invested =
\* 120000 and Final Amount = 128093, the value of 12 monthly deposits of
\* 10000 each added before that month's 1% growth is applied.
C10_SipExample ==
    C10_Case =>
        /\ Len(results) = 1
        /\ results[1].TotalInvested = 120000
        /\ results[1].FinalAmount = 128093
        /\ results[1].Gains = 8093

C10_Witness ==
    /\ C10_Case
    /\ results[1].Period = 1
    /\ results[1].FinalAmount > results[1].TotalInvested

----------------------------------------------------------------------------
(* C11: calls with out-of-range arguments *)

\* Arguments as the methods accept them: the methods test nothing on entry,
\* so years may be <= 0 and the amounts may be <= 0.
AnyYears == {-1, 0, 1, 2}
AnyAmounts == {-1000, 0, 1000}

OneTimeArgsAny ==
    [principal : {p * Scale : p \in AnyAmounts},
     rate : Rates,
     years : AnyYears,
     inflation_rate : InflationRates,
     enable_increase : BOOLEAN,
     increase_frequency : {"Yearly"},
     increase_amount : {a * Scale : a \in IncreaseAmounts}]

SipArgsAny ==
    [monthly_investment : {m * Scale : m \in AnyAmounts},
     rate : Rates,
     years : AnyYears,
     inflation_rate : InflationRates,
     enable_increase : BOOLEAN,
     increase_frequency : {"Yearly"},
     increase_percentage : IncreasePercentages]

SwpArgsAny ==
    [initial_amount : {m * Scale : m \in AnyAmounts},
     withdrawal_amount : {m * Scale : m \in AnyAmounts},
     rate : Rates,
     years : AnyYears,
     inflation_rate : InflationRates,
     enable_increase : BOOLEAN,
     increase_frequency : {"Yearly"},
     increase_percentage : IncreasePercentages]

InitAny ==
    /\ fn \in {"one_time_investment", "sip_calculator", "swp_calculator"}
    /\ args \in CASE fn = "one_time_investment" -> OneTimeArgsAny
                  [] fn = "sip_calculator" -> SipArgsAny
                  [] fn = "swp_calculator" -> SwpArgsAny
    /\ pc = "call"
    /\ year = 0
    /\ month = 0
    /\ loc = << >>
    /\ results = << >>
    /\ exact = << >>

\* the three methods called with any arguments
SpecAny == InitAny /\ [][Next]_vars

\* the arguments are in range: years >= 1 and the amounts > 0
InRange ==
    /\ args.years >= 1
    /\ CASE OneTime -> args.principal > 0
         [] Sip -> args.monthly_investment > 0
         [] Swp -> args.initial_amount > 0 /\ args.withdrawal_amount > 0

\* C11: a call with out-of-range arguments (years <= 0, or a non-positive
\* principal or amount) is rejected with an input error: it never returns
\* normally, neither with an empty result nor with a computed one.
C11_OutOfRangeRejected == ~InRange => pc # "done"

----------------------------------------------------------------------------
(* calculate_cagr *)

\* The arguments of calculate_cagr: two values in rupees and a number of
\* years, none of them tested by the caller.
CagrValues == {-100, 0, 100, 50000, 100000, 200000}

CagrArgs ==
    [initial_value : CagrValues,
     final_value : CagrValues,
     years : -1..MaxYears]

\* x ** n for x in units of 1/Scale; for x >= 1 some value above cap once
\* the power exceeds cap
RECURSIVE PowCapped(_, _, _)
PowCapped(x, n, cap) ==
    IF n = 0 THEN Scale
    ELSE LET p == PowCapped(x, n - 1, cap) IN
         IF x >= Scale /\ p > cap THEN cap + 1 ELSE MulDiv(p, x, Scale)

\* the greatest r in lo..hi with r ** n <= v, by bisection (lo if there is none)
RECURSIVE RootBetween(_, _, _, _)
RootBetween(v, n, lo, hi) ==
    IF lo >= hi THEN lo
    ELSE LET mid == (lo + hi + 1) \div 2 IN
         IF PowCapped(mid, n, v) <= v
         THEN RootBetween(v, n, mid, hi)
         ELSE RootBetween(v, n, lo, mid - 1)

\* v ** (1/n), v and the result in units of 1/Scale
Root(v, n) == RootBetween(v, n, 0, IF v > Scale THEN v ELSE Scale)

\* ((final_value / initial_value) ** (1/years) - 1) * 100, in 1/Scale percent
CagrFormula(a) ==
    (Root(MulDiv(a.final_value, Scale, a.initial_value), a.years) - Scale) * 100

\* calculate_cagr without the test of final_value
calculate_cagr_NoFinalTest(a) ==
    IF a.initial_value <= 0 \/ a.years <= 0
    THEN 0
    ELSE CagrFormula(a)

\* the value calculate_cagr returns, in 1/Scale percent
calculate_cagr(a) ==
    IF a.initial_value <= 0 \/ a.final_value <= 0 \/ a.years <= 0
    THEN 0
    ELSE CagrFormula(a)

CagrCall ==
    /\ pc = "call" /\ fn = "calculate_cagr"
    /\ results' = calculate_cagr(args)
    /\ pc' = "done"
    /\ UNCHANGED <<fn, args, year, month, loc, exact>>

InitCagr ==
    /\ fn = "calculate_cagr"
    /\ args \in CagrArgs
    /\ pc = "call"
    /\ year = 0
    /\ month = 0
    /\ loc = << >>
    /\ results = << >>
    /\ exact = << >>

NextCagr == CagrCall

SpecCagr == InitCagr /\ [][NextCagr]_vars

----------------------------------------------------------------------------
(* C12: the fallback and the formula branch of calculate_cagr *)

CagrFallback ==
    args.initial_value <= 0 \/ args.final_value <= 0 \/ args.years <= 0

\* C12: calculate_cagr returns 0, as a value, whenever initial_value <= 0 or
\* final_value <= 0 or years <= 0 (CAGR(0, 100, 5) = 0); for all-positive
\* arguments it returns the value of the formula: the rate r with
\* (1 + r/100) ** years = final_value / initial_value, so that its sign is
\* the sign of final_value - initial_value, for one year it is the relative
\* change in percent, and CAGR(100000, 200000, 1) = 100.
C12_CagrBranches ==
    Done =>
        /\ CagrFallback => results = 0
        /\ ~CagrFallback =>
               LET ratio == MulDiv(args.final_value, Scale, args.initial_value)
                   root == Scale + results \div 100
               IN  /\ results % 100 = 0
                   /\ PowCapped(root, args.years, ratio) <= ratio
                   /\ PowCapped(root + 1, args.years, ratio) > ratio
                   /\ args.final_value > args.initial_value => results > 0
                   /\ args.final_value = args.initial_value => results = 0
                   /\ args.final_value < args.initial_value => results < 0
                   /\ args.years = 1 => results = (ratio - Scale) * 100
        /\ ( /\ args.initial_value = 0
             /\ args.final_value = 100
             /\ args.years = 5 ) => results = 0
        /\ ( /\ args.initial_value = 100000
             /\ args.final_value = 200000
             /\ args.years = 1 ) => results = 100 * Scale

\* CAGR(100000, 200000, 1) has returned 100
C12_Witness ==
    /\ Done
    /\ args.initial_value = 100000
    /\ args.final_value = 200000
    /\ args.years = 1
    /\ results = 100 * Scale

----------------------------------------------------------------------------
(* C13: the balance of swp_calculator never goes below 0 *)

\* the sum of the amounts withdrawn in the years 1..n
RECURSIVE WithdrawnUpTo(_)
WithdrawnUpTo(n) ==
    IF n = 0 THEN 0 ELSE WithdrawnUpTo(n - 1) + exact[n].year_withdrawn

\* in every state of a call of swp_calculator
C13_Balance ==
    (Swp /\ pc # "call") =>
        /\ loc.current_balance >= 0
        /\ loc.total_withdrawn >= 0
        /\ pc = "month" =>
               loc.total_withdrawn = WithdrawnUpTo(Len(exact)) + loc.year_withdrawn
        /\ \A i \in 1..Len(results) :
               /\ exact[i].current_balance >= 0
               /\ results[i].RemainingBalance >= 0
               /\ exact[i].total_withdrawn = WithdrawnUpTo(i)
               /\ results[i].TotalWithdrawn = int(exact[i].total_withdrawn)
        /\ (Len(results) > 0 /\ Last(exact).current_balance <= 0) =>
               /\ Done
               /\ Last(exact).current_balance = 0
               /\ Last(results).RemainingBalance = 0

\* in every iteration of the month loop
C13_Month ==
    SwpMonth =>
        LET withdrawal == loc'.total_withdrawn - loc.total_withdrawn
            grown == GrowMonthly(loc.current_balance, args.rate)
        IN  IF loc.current_balance <= 0
            THEN loc' = loc
            ELSE /\ withdrawal >= 0
                 /\ withdrawal <= grown
                 /\ withdrawal <= loc.current_monthly_withdrawal
                 /\ loc'.current_balance = grown - withdrawal
                 /\ loc'.year_withdrawn = loc.year_withdrawn + withdrawal

\* C13: in swp_calculator with in-range arguments the balance is never
\* negative, at any month and in any record; each month's withdrawal is at
\* most the balance after that month's growth; a month with balance <= 0
\* changes neither the balance nor the amounts withdrawn; a depleted run ends
\* with Remaining Balance exactly 0; and the Total Withdrawn of each record is
\* the running sum of the monthly withdrawals made so far.
C13_BalanceNeverNegative == []C13_Balance /\ [][C13_Month]_vars

\* the balance ran out in the middle of a year: the remaining months of the
\* year find a balance of 0
C13_Witness ==
    /\ Swp /\ pc = "month"
    /\ year >= 2
    /\ month \in 1..(MonthsPerYear - 1)
    /\ loc.current_balance = 0
    /\ loc.year_withdrawn > 0
    /\ loc.total_withdrawn >= args.initial_amount

====
